---- MODULE Spec2Model ----
(***************************************************************************)
(* GCEMetadataScripts (metadata_scripts/GCEMetadataScripts/main.go): the   *)
(* program that reads the metadata scripts of one lifecycle phase, resolves *)
(* and downloads them, writes each to a temporary file, runs it and logs    *)
(* its outcome.  Strings are TLA+ strings, read character by character with *)
(* SubSeq; script kinds are the integers of the Go iota block.             *)
(***************************************************************************)
EXTENDS Integers, Sequences, FiniteSets, TLC

(***************************************************************************)
(* Bounds of the model.                                                    *)
(***************************************************************************)
\* the longest output (in lines) a child script process writes
MaxLines == 3
\* the number of lines the OS pipe buffer holds before a writer blocks
PipeCap == 1

(***************************************************************************)
(* Strings.                                                                *)
(***************************************************************************)
CharAt(s, i) == SubSeq(s, i, i)

HasPrefix(s, p) == Len(s) >= Len(p) /\ SubSeq(s, 1, Len(p)) = p

HasSuffix(s, p) == Len(s) >= Len(p) /\ SubSeq(s, Len(s) - Len(p) + 1, Len(s)) = p

\* s without its first n characters
Drop(s, n) == SubSeq(s, n + 1, Len(s))

\* the index of the first occurrence of the character c in s, 0 if none
IndexByte(s, c) ==
    IF \E i \in 1..Len(s) : CharAt(s, i) = c
    THEN CHOOSE i \in 1..Len(s) :
            /\ CharAt(s, i) = c
            /\ \A j \in 1..(i - 1) : CharAt(s, j) # c
    ELSE 0

\* unicode.IsSpace on the characters a TLA+ string can hold
IsSpace(c) == c \in {" ", "\t", "\n", "\r", "\f"}

RECURSIVE TrimLeft(_)
TrimLeft(s) ==
    IF Len(s) > 0 /\ IsSpace(CharAt(s, 1)) THEN TrimLeft(Drop(s, 1)) ELSE s

RECURSIVE TrimRight(_)
TrimRight(s) ==
    IF Len(s) > 0 /\ IsSpace(CharAt(s, Len(s)))
    THEN TrimRight(SubSeq(s, 1, Len(s) - 1))
    ELSE s

\* strings.TrimSpace
TrimSpace(s) == TrimRight(TrimLeft(s))

\* fmt.Sprintf(format, arg) for a format with one %s verb
Sprintf(format, arg) ==
    LET at == CHOOSE i \in 1..(Len(format) - 1) : SubSeq(format, i, i + 1) = "%s"
    IN  SubSeq(format, 1, at - 1) \o arg \o Drop(format, at + 1)

(***************************************************************************)
(* Script kinds and the package variables.                                 *)
(***************************************************************************)
ps1 == 0
cmd == 1
bat == 2
url == 3

metadataScriptType == {ps1, cmd, bat, url}

commands == <<"specialize", "startup", "shutdown">>

scripts ==
    (ps1 :> "%s-script-ps1") @@ (cmd :> "%s-script-cmd") @@
    (bat :> "%s-script-bat") @@ (url :> "%s-script-url")

\* a metadataScript value
metadataScript(t, script, metadata) ==
    [Type |-> t, Script |-> script, Metadata |-> metadata]

(***************************************************************************)
(* The object-storage patterns.  A pattern's result is what                *)
(* FindStringSubmatch returns: <<whole, bucket, object>>, or <<>> (nil).   *)
(***************************************************************************)
LowerDigit ==
    {"a", "b", "c", "d", "e", "f", "g", "h", "i", "j", "k", "l", "m",
     "n", "o", "p", "q", "r", "s", "t", "u", "v", "w", "x", "y", "z",
     "0", "1", "2", "3", "4", "5", "6", "7", "8", "9"}

\* ([a-z0-9][-_.a-z0-9]*)
bucket(s) ==
    /\ Len(s) >= 1
    /\ CharAt(s, 1) \in LowerDigit
    /\ \A i \in 2..Len(s) : CharAt(s, i) \in LowerDigit \cup {"-", "_", "."}

\* object with (.*) in place of (.+)
object_MayBeEmpty(s) == \A i \in 1..Len(s) : CharAt(s, i) # "\n"

\* (.+) up to the end of the text: "." matches every character but newline
object(s) ==
    /\ Len(s) >= 1
    /\ \A i \in 1..Len(s) : CharAt(s, i) # "\n"

\* <bucket>/<object>$ : no character of a bucket is "/", so the bucket ends
\* at the first "/" of rest
BucketSlashObject(whole, rest) ==
    LET slash == IndexByte(rest, "/")
    IN  IF /\ slash > 0
           /\ bucket(SubSeq(rest, 1, slash - 1))
           /\ object(Drop(rest, slash))
        THEN <<whole, SubSeq(rest, 1, slash - 1), Drop(rest, slash)>>
        ELSE <<>>

\* ^http[s]?:// : whether path begins with the scheme, and the text after it
AfterHTTP(path) ==
    IF HasPrefix(path, "https://") THEN [ok |-> TRUE, rest |-> Drop(path, 8)]
    ELSE IF HasPrefix(path, "http://") THEN [ok |-> TRUE, rest |-> Drop(path, 7)]
    ELSE [ok |-> FALSE, rest |-> ""]

\* ^gs://<bucket>/<object>$
gsRegex(path) ==
    IF HasPrefix(path, "gs://") THEN BucketSlashObject(path, Drop(path, 5))
    ELSE <<>>

\* ^http[s]?://<bucket>\.storage\.googleapis\.com/<object>$ : the host ends
\* at the first "/", and the bucket is the host without the domain
gsHTTPRegex1(path) ==
    LET a     == AfterHTTP(path)
        slash == IndexByte(a.rest, "/")
        host  == SubSeq(a.rest, 1, slash - 1)
        dom   == ".storage.googleapis.com"
    IN  IF /\ a.ok
           /\ slash > 0
           /\ HasSuffix(host, dom)
           /\ bucket(SubSeq(host, 1, Len(host) - Len(dom)))
           /\ object(Drop(a.rest, slash))
        THEN <<path, SubSeq(host, 1, Len(host) - Len(dom)), Drop(a.rest, slash)>>
        ELSE <<>>

\* ^http[s]?://storage\.cloud\.google\.com/<bucket>/<object>$
gsHTTPRegex2(path) ==
    LET a   == AfterHTTP(path)
        dom == "storage.cloud.google.com/"
    IN  IF a.ok /\ HasPrefix(a.rest, dom)
        THEN BucketSlashObject(path, Drop(a.rest, Len(dom)))
        ELSE <<>>

\* ^http[s]?://(?:commondata)?storage\.googleapis\.com/<bucket>/<object>$
gsHTTPRegex3(path) ==
    LET a    == AfterHTTP(path)
        rest == IF HasPrefix(a.rest, "commondata") THEN Drop(a.rest, 10) ELSE a.rest
        dom  == "storage.googleapis.com/"
    IN  IF a.ok /\ HasPrefix(rest, dom)
        THEN BucketSlashObject(path, Drop(rest, Len(dom)))
        ELSE <<>>

\* findMatch: the bucket and object of the first pattern that matches
findMatch(path) ==
    LET matches == <<gsRegex(path), gsHTTPRegex1(path),
                     gsHTTPRegex2(path), gsHTTPRegex3(path)>>
    IN  IF \E i \in 1..4 : Len(matches[i]) = 3
        THEN LET first == CHOOSE i \in 1..4 :
                            /\ Len(matches[i]) = 3
                            /\ \A j \in 1..(i - 1) : Len(matches[j]) # 3
             IN  <<matches[first][2], matches[first][3]>>
        ELSE <<"", "">>

(***************************************************************************)
(* validateArgs and parseMetadata.                                         *)
(***************************************************************************)
\* the error value every failure of validateArgs returns
ArgumentError == "No valid arguments specified. Options: [specialize startup shutdown]"

\* validateArgs testing len(args) < 2 in place of len(args) != 2
validateArgs_AnyCount(argv) ==
    IF Len(argv) < 2 THEN [err |-> ArgumentError, mdsm |-> << >>]
    ELSE IF \E i \in 1..Len(commands) : commands[i] = argv[2]
         THEN LET command == IF argv[2] = "specialize"
                             THEN "sysprep-" \o argv[2]
                             ELSE "windows-" \o argv[2]
              IN  [err |-> "",
                   mdsm |-> [t \in DOMAIN scripts |-> Sprintf(scripts[t], command)]]
         ELSE [err |-> ArgumentError, mdsm |-> << >>]

\* validateArgs without the sysprep- prefix of the phase specialize
validateArgs_WindowsOnly(argv) ==
    IF Len(argv) # 2 THEN [err |-> ArgumentError, mdsm |-> << >>]
    ELSE IF \E i \in 1..Len(commands) : commands[i] = argv[2]
         THEN [err |-> "",
               mdsm |-> [t \in DOMAIN scripts |->
                            Sprintf(scripts[t], "windows-" \o argv[2])]]
         ELSE [err |-> ArgumentError, mdsm |-> << >>]

\* validateArgs(os.Args): the key set of the phase, or the error
validateArgs(argv) ==
    IF Len(argv) # 2 THEN [err |-> ArgumentError, mdsm |-> << >>]
    ELSE IF \E i \in 1..Len(commands) : commands[i] = argv[2]
         THEN LET command == IF argv[2] = "specialize"
                             THEN "sysprep-" \o argv[2]
                             ELSE "windows-" \o argv[2]
              IN  [err |-> "",
                   mdsm |-> [t \in DOMAIN scripts |-> Sprintf(scripts[t], command)]]
         ELSE [err |-> ArgumentError, mdsm |-> << >>]

\* sort.Ints: insertion of each element in turn into the sorted prefix
RECURSIVE InsertSorted(_, _)
InsertSorted(sorted, k) ==
    IF sorted = <<>> THEN <<k>>
    ELSE IF k <= Head(sorted) THEN <<k>> \o sorted
    ELSE <<Head(sorted)>> \o InsertSorted(Tail(sorted), k)

\* SortInts with the call of sort.Ints left out
SortInts_Unsorted(keys) == keys

RECURSIVE SortInts(_)
SortInts(keys) ==
    IF keys = <<>> THEN <<>>
    ELSE InsertSorted(SortInts(SubSeq(keys, 1, Len(keys) - 1)), keys[Len(keys)])

\* AppendScripts with the test script == "" left out
RECURSIVE AppendScripts_KeepEmpty(_, _, _, _)
AppendScripts_KeepEmpty(list, keys, mdsm, att) ==
    IF keys = <<>> THEN list
    ELSE LET t    == Head(keys)
             name == mdsm[t]
         IN  IF name \notin DOMAIN att
             THEN AppendScripts_KeepEmpty(list, Tail(keys), mdsm, att)
             ELSE AppendScripts_KeepEmpty(
                    Append(list, [Type |-> t, Script |-> att[name], Metadata |-> name]),
                    Tail(keys), mdsm, att)

\* AppendScripts storing the trimmed value in the record
RECURSIVE AppendScripts_Trimmed(_, _, _, _)
AppendScripts_Trimmed(list, keys, mdsm, att) ==
    IF keys = <<>> THEN list
    ELSE LET t    == Head(keys)
             name == mdsm[t]
         IN  IF name \notin DOMAIN att \/ att[name] = ""
             THEN AppendScripts_Trimmed(list, Tail(keys), mdsm, att)
             ELSE AppendScripts_Trimmed(
                    Append(list, [Type |-> t, Script |-> TrimSpace(att[name]),
                                  Metadata |-> name]),
                    Tail(keys), mdsm, att)

\* the second loop of parseMetadata over the sorted keys
RECURSIVE AppendScripts(_, _, _, _)
AppendScripts(list, keys, mdsm, att) ==
    IF keys = <<>> THEN list
    ELSE LET t    == Head(keys)
             name == mdsm[t]
         IN  IF name \notin DOMAIN att \/ att[name] = ""
             THEN AppendScripts(list, Tail(keys), mdsm, att)
             ELSE AppendScripts(Append(list, metadataScript(t, att[name], name)),
                                Tail(keys), mdsm, att)

\* parseMetadata(mdsm, md); range is the order in which the range loop over
\* the map mdsm yields its keys
parseMetadata(mdsm, att, range) == AppendScripts(<<>>, SortInts(range), mdsm, att)

(***************************************************************************)
(* The inputs of a run: the argument vector, the metadata the server       *)
(* returns, the bodies a download returns and the behaviour of a script.   *)
(***************************************************************************)
exe == "GCEMetadataScripts.exe"

ArgVectors ==
    {<<exe>>, <<exe, "specialize">>, <<exe, "startup">>, <<exe, "shutdown">>,
     <<exe, "restart">>, <<exe, "startup", "shutdown">>}

\* values of a ps1, cmd or bat key; Absent stands for a key that is not in
\* the map
Absent == "<absent>"

InlineValues == {Absent, "", "exit 3"}

URLValues ==
    {Absent, "", " ", "a",
     "gs://b/o.ps1",
     " http://x.io/s.cmd\n",
     "https://storage.googleapis.com/b/o.bat",
     "http://x.io/sps1",
     "gs://b/o.txt"}

\* the map of the pairs (name, value) whose value is not Absent
MapOf(pairs) ==
    LET names == {p[1] : p \in {q \in pairs : q[2] # Absent}}
    IN  [n \in names |-> (CHOOSE p \in pairs : p[1] = n)[2]]

\* the attribute maps the metadata server may return for the key set mdsm;
\* every map also holds an attribute that is no script key
MetadataMaps(mdsm) ==
    {MapOf({<<mdsm[ps1], a>>, <<mdsm[cmd], b>>, <<mdsm[bat], c>>,
            <<mdsm[url], d>>, <<"enable-oslogin", "TRUE">>}) :
        a \in InlineValues, b \in InlineValues, c \in InlineValues, d \in URLValues}

\* the orders in which a range loop may yield the keys of the map m
RangeOrders(m) ==
    {o \in [1..Cardinality(DOMAIN m) -> DOMAIN m] :
        \A i, j \in DOMAIN o : i # j => o[i] # o[j]}

\* bodies a download may return; the second is itself a script reference
Bodies == {"exit 3", "gs://b/o.ps1"}

\* a line a script writes: one the scanner's buffer holds, or one longer
\* than bufio.MaxScanTokenSize
Lines == {"line", "<too long>"}

RECURSIVE SeqsUpTo(_, _)
SeqsUpTo(S, n) ==
    IF n = 0 THEN {<<>>}
    ELSE LET shorter == SeqsUpTo(S, n - 1)
         IN  shorter \cup {Append(q, x) : q \in shorter, x \in S}

\* the outputs and exit statuses of a script process
Outputs == SeqsUpTo(Lines, MaxLines)

ExitStatuses == {0, 3}

(***************************************************************************)
(* Error values.                                                           *)
(***************************************************************************)
nil == [kind |-> "nil", msg |-> ""]

\* *exec.ExitError of a process that exited with a non-zero status
ExitError(status) == [kind |-> "ExitError", msg |-> "exit status " \o ToString(status)]

\* every other error
Errorf(msg) == [kind |-> "error", msg |-> msg]

\* the exit status of a Go program that panics
PanicExitStatus == 2

\* the exit status of logger.Fatal
FatalExitStatus == 1

(***************************************************************************)
(* The state.                                                              *)
(***************************************************************************)
VARIABLES
    args,       \* os.Args
    pc,         \* the position of the program
    exitCode,   \* the exit status of the process, -1 while it runs
    err,        \* main's err: "" for nil
    metadata,   \* main's metadata: the key set of the phase
    md,         \* the attribute map getMetadata returned
    mdss,       \* main's scripts: the run list
    idx,        \* runScripts: the position of the range loop in the list
    ran,        \* the positions of the records script.run was called on
    stack,      \* the receivers of the active calls of metadataScript.run
    st,         \* run: the kind the url's extension selects
    path,       \* downloadScript's path
    match,      \* downloadScript's bucket, object
    gsReads,    \* the (bucket, object) pairs read through the storage client
    gsResult,   \* the result of downloadGSURL
    httpGets,   \* the URLs requested with http.Get
    res,        \* downloadURL: the response of http.Get and of reading its body
    httpResult, \* the result of downloadURL
    dlRet,      \* the result of downloadScript
    dirs,       \* the temporary directories that exist
    files,      \* the files in them: directory -> name and content
    tmpFile,    \* runBat/runPs1: the directory and name of the script file
    c,          \* the exec.Cmd: its argument vector
    lastPid,    \* the number of processes started
    children,   \* the child processes not yet waited on: pid -> process
    pipe,       \* the lines in the pipe's buffer
    ret,        \* the error script.run returns
    log         \* the lines written to the logger and to standard output
                \* since the loop of runScripts took its current record

vars == <<args, pc, exitCode, err, metadata, md, mdss, idx, ran, stack, st,
          path, match, gsReads, gsResult, httpGets, res, httpResult, dlRet, dirs,
          files, tmpFile, c, lastPid, children, pipe, ret, log>>

mainVars == <<args, err, metadata, md, mdss>>
dlVars   == <<st, path, match, gsReads, gsResult, httpGets, res, httpResult, dlRet>>
fsVars   == <<dirs, files, tmpFile>>
procVars == <<c, lastPid, children, pipe>>

Logged(level, msg) == [level |-> level, msg |-> msg]

NoResult == [script |-> "", err |-> nil]

\* the zero value of the response: status 0 stands for no response
NoResponse == [err |-> nil, status |-> 0, body |-> "", readErr |-> nil]

Init ==
    /\ args \in ArgVectors
    /\ pc = "main"
    /\ exitCode = -1
    /\ err = ""
    /\ metadata = << >>
    /\ md = << >>
    /\ mdss = << >>
    /\ idx = 0
    /\ ran = << >>
    /\ stack = << >>
    /\ st = ps1
    /\ path = ""
    /\ match = <<"", "">>
    /\ gsReads = << >>
    /\ gsResult = NoResult
    /\ httpGets = << >>
    /\ res = NoResponse
    /\ httpResult = NoResult
    /\ dlRet = NoResult
    /\ dirs = {}
    /\ files = << >>
    /\ tmpFile = [dir |-> 0, name |-> ""]
    /\ c = << >>
    /\ lastPid = 0
    /\ children = << >>
    /\ pipe = << >>
    /\ ret = nil
    /\ log = << >>

(***************************************************************************)
(* main, getScripts and the loop of runScripts.                            *)
(***************************************************************************)
Exit(status) ==
    /\ exitCode' = status
    /\ pc' = "exited"

\* main: validateArgs(os.Args); on an error print it and exit with status 1
main_validateArgs ==
    /\ pc = "main"
    /\ LET r == validateArgs(args)
       IN  /\ err' = r.err
           /\ metadata' = r.mdsm
           /\ IF r.err # ""
              THEN /\ log' = Append(log, Logged("stdout", r.err))
                   /\ Exit(1)
              ELSE /\ log' = Append(log, Logged("info",
                                "Starting " \o args[2] \o " scripts (verison )."))
                   /\ pc' = "getScripts"
                   /\ UNCHANGED exitCode
    /\ UNCHANGED <<args, md, mdss, idx, ran, stack, ret>>
    /\ UNCHANGED <<dlVars, fsVars, procVars>>

\* getScripts when getMetadata fails: main prints the error and logger.Fatal
\* ends the process
getScripts_error ==
    /\ pc = "getScripts"
    /\ \E e \in {"Get: dial tcp: i/o timeout", "invalid character '<'"} :
        /\ err' = e
        /\ log' = log \o <<Logged("stdout", e), Logged("fatal", e)>>
    /\ Exit(FatalExitStatus)
    /\ UNCHANGED <<args, metadata, md, mdss, idx, ran, stack, ret>>
    /\ UNCHANGED <<dlVars, fsVars, procVars>>

\* getScripts when getMetadata returns the attribute map att
getScripts ==
    /\ pc = "getScripts"
    /\ \E att \in MetadataMaps(metadata) : \E range \in RangeOrders(metadata) :
        /\ md' = att
        /\ mdss' = parseMetadata(metadata, att, range)
    /\ err' = ""
    /\ pc' = "checkLen"
    /\ UNCHANGED <<args, exitCode, metadata, idx, ran, stack, ret, log>>
    /\ UNCHANGED <<dlVars, fsVars, procVars>>

\* main: len(scripts) == 0
main_noScripts ==
    /\ pc = "checkLen"
    /\ Len(mdss) = 0
    /\ log' = Append(log, Logged("info", "No " \o args[2] \o " scripts to run."))
    /\ Exit(0)
    /\ UNCHANGED <<mainVars, idx, ran, stack, ret>>
    /\ UNCHANGED <<dlVars, fsVars, procVars>>

\* main: the call of runScripts
main_runScripts ==
    /\ pc = "checkLen"
    /\ Len(mdss) # 0
    /\ idx' = 1
    /\ pc' = "runScripts"
    /\ UNCHANGED <<mainVars, exitCode, ran, stack, ret, log>>
    /\ UNCHANGED <<dlVars, fsVars, procVars>>

\* runScripts: the loop takes the next record and calls script.run
runScripts_next ==
    /\ pc = "runScripts"
    /\ idx <= Len(mdss)
    /\ log' = <<Logged("info", "Found " \o mdss[idx].Metadata \o " in metadata.")>>
    /\ stack' = <<mdss[idx]>>
    /\ ran' = Append(ran, idx)
    /\ pc' = "run"
    /\ UNCHANGED <<mainVars, exitCode, idx, ret>>
    /\ UNCHANGED <<dlVars, fsVars, procVars>>

\* runScripts returns at the end of the list; main logs and returns
runScripts_return ==
    /\ pc = "runScripts"
    /\ idx > Len(mdss)
    /\ log' = Append(log, Logged("info", "Finished running " \o args[2] \o " scripts."))
    /\ Exit(0)
    /\ UNCHANGED <<mainVars, idx, ran, stack, ret>>
    /\ UNCHANGED <<dlVars, fsVars, procVars>>

\* runScripts: the classification of the error script.run returned
runScripts_classify ==
    /\ pc = "return"
    /\ LET label == stack[1].Metadata
       IN  log' = Append(log,
                IF ret.kind = "ExitError" THEN Logged("info", label \o " " \o ret.msg)
                ELSE IF ret.kind = "nil" THEN Logged("info", label \o " exit status 0")
                ELSE Logged("error", ret.msg))
    /\ stack' = << >>
    /\ idx' = idx + 1
    /\ pc' = "runScripts"
    /\ UNCHANGED <<mainVars, exitCode, ran, ret>>
    /\ UNCHANGED <<dlVars, fsVars, procVars>>

(***************************************************************************)
(* metadataScript.run.                                                     *)
(***************************************************************************)
\* the receiver of the innermost active call of run
ms == stack[Len(stack)]

\* the inner switch of run on the last three characters: the kind, or -1
\* for the default case
ScriptTypeOf(sType) ==
    IF sType = "ps1" THEN ps1
    ELSE IF sType = "cmd" THEN cmd
    ELSE IF sType = "bat" THEN bat
    ELSE -1

\* nMS built with the kind of ms in place of st
nMS_KeepType(t, script, m) == metadataScript(m.Type, script, m.Metadata)

\* nMS := &metadataScript{st, script, ms.Metadata}
nMS(t, script, m) == metadataScript(t, script, m.Metadata)

\* run on a record of kind ps1, cmd or bat (and the outer default case)
run ==
    /\ pc = "run"
    /\ ms.Type # url
    /\ IF ms.Type = ps1 THEN pc' = "runPs1" /\ UNCHANGED ret
       ELSE IF ms.Type \in {cmd, bat} THEN pc' = "runBat" /\ UNCHANGED ret
       ELSE /\ ret' = Errorf("unknown script type: " \o ms.Script)
            /\ pc' = "return"
    /\ UNCHANGED <<mainVars, exitCode, idx, ran, stack, log>>
    /\ UNCHANGED <<dlVars, fsVars, procVars>>

\* run on a record of kind url, up to the call of downloadScript.  The slice
\* expression trimmed[len(trimmed)-3:] panics when trimmed has fewer than
\* three characters, and no call on the stack recovers.
run_url ==
    /\ pc = "run"
    /\ ms.Type = url
    /\ LET trimmed == TrimSpace(ms.Script)
       IN  IF Len(trimmed) < 3
           THEN /\ log' = Append(log, Logged("stderr",
                                "panic: runtime error: slice bounds out of range"))
                /\ Exit(PanicExitStatus)
                /\ UNCHANGED <<st, path, ret>>
           ELSE LET sType == SubSeq(trimmed, Len(trimmed) - 2, Len(trimmed))
                IN  IF ScriptTypeOf(sType) = -1
                    THEN /\ ret' = Errorf("error getting script type from url path, path: "
                                          \o trimmed \o ", parsed type: " \o sType)
                         /\ pc' = "return"
                         /\ UNCHANGED <<st, path, exitCode, log>>
                    ELSE /\ st' = ScriptTypeOf(sType)
                         /\ path' = trimmed
                         /\ pc' = "downloadScript"
                         /\ UNCHANGED <<ret, exitCode, log>>
    /\ UNCHANGED <<mainVars, idx, ran, stack>>
    /\ UNCHANGED <<match, gsReads, gsResult, httpGets, res, httpResult, dlRet>>
    /\ UNCHANGED <<fsVars, procVars>>

\* run after downloadScript returned: the error, or the call nMS.run
run_downloaded ==
    /\ pc = "downloaded"
    /\ IF dlRet.err # nil
       THEN /\ ret' = dlRet.err
            /\ pc' = "return"
            /\ UNCHANGED stack
       ELSE /\ stack' = Append(stack, nMS(st, dlRet.script, ms))
            /\ pc' = "run"
            /\ UNCHANGED ret
    /\ UNCHANGED <<mainVars, exitCode, idx, ran, log>>
    /\ UNCHANGED <<dlVars, fsVars, procVars>>

(***************************************************************************)
(* downloadScript, downloadGSURL and downloadURL.                          *)
(***************************************************************************)
\* MatchFound with the test left out
MatchFound_Always(m) == TRUE

\* bucket != "" && object != ""
MatchFound(m) == m[1] # "" /\ m[2] # ""

\* FallbackPath rebuilt from the bucket and object of a match
FallbackPath_Rebuilt(p, m) ==
    IF m[1] # "" /\ m[2] # ""
    THEN "https://storage.googleapis.com/" \o m[1] \o "/" \o m[2]
    ELSE p

\* the argument of downloadURL in downloadScript
FallbackPath(p, m) == p

\* downloadScript: findMatch and the branch on its result
downloadScript ==
    /\ pc = "downloadScript"
    /\ match' = findMatch(path)
    /\ pc' = IF MatchFound(match') THEN "downloadGSURL" ELSE "downloadURL"
    /\ UNCHANGED <<mainVars, exitCode, idx, ran, stack, ret, log>>
    /\ UNCHANGED <<st, path, gsReads, gsResult, httpGets, res, httpResult, dlRet>>
    /\ UNCHANGED <<fsVars, procVars>>

\* the results of downloadGSURL: read tells whether obj.NewReader was reached
GSResults ==
    {[read |-> FALSE, script |-> "", err |-> Errorf("failed to create client: no credentials")],
     [read |-> TRUE, script |-> "", err |-> Errorf("storage: object doesn't exist")],
     [read |-> TRUE, script |-> "", err |-> Errorf("unexpected EOF")]}
    \cup {[read |-> TRUE, script |-> b, err |-> nil] : b \in Bodies}

\* downloadGSURL(ctx, bucket, object) and what downloadScript does with its
\* result
downloadGSURL ==
    /\ pc = "downloadGSURL"
    /\ \E r \in GSResults :
        /\ gsReads' = IF r.read THEN Append(gsReads, match) ELSE gsReads
        /\ gsResult' = [script |-> r.script, err |-> r.err]
        /\ IF r.err = nil
           THEN /\ dlRet' = [script |-> r.script, err |-> nil]
                /\ pc' = "downloaded"
                /\ UNCHANGED log
           ELSE /\ log' = log \o
                    <<Logged("info", "Failed to download GCS path: " \o r.err.msg),
                      Logged("info", "Trying unauthenticated download%!(EXTRA "
                                     \o r.err.msg \o ")")>>
                /\ pc' = "downloadURL"
                /\ UNCHANGED dlRet
    /\ UNCHANGED <<mainVars, exitCode, idx, ran, stack, ret>>
    /\ UNCHANGED <<st, path, match, httpGets, res, httpResult>>
    /\ UNCHANGED <<fsVars, procVars>>

\* the body of a response whose status is not a success
ErrorBodies == {"<Error><Code>AccessDenied</Code></Error>"}

\* what http.Get(p) and ioutil.ReadAll(res.Body) may yield: an error of
\* http.Get (the transport supports the schemes http and https only), or a
\* response of some status whose body is read or fails to be read
Responses(p) ==
    IF AfterHTTP(p).ok
    THEN {[err |-> Errorf("Get " \o p \o ": dial tcp: no such host"),
           status |-> 0, body |-> "", readErr |-> nil],
          [err |-> nil, status |-> 200, body |-> "", readErr |-> Errorf("unexpected EOF")]}
         \cup {[err |-> nil, status |-> 200, body |-> b, readErr |-> nil] : b \in Bodies}
         \cup {[err |-> nil, status |-> s, body |-> b, readErr |-> nil] :
                    s \in {403, 404}, b \in ErrorBodies}
    ELSE {[err |-> Errorf("Get " \o p \o ": unsupported protocol scheme"),
           status |-> 0, body |-> "", readErr |-> nil]}

\* URLResult failing on a status that is not a success
URLResult_CheckStatus(r) ==
    IF r.err # nil THEN [script |-> "", err |-> r.err]
    ELSE IF r.status >= 400 THEN [script |-> "", err |-> Errorf("bad status")]
    ELSE IF r.readErr # nil THEN [script |-> "", err |-> r.readErr]
    ELSE [script |-> r.body, err |-> nil]

\* what downloadURL returns for the response r
URLResult(r) ==
    IF r.err # nil THEN [script |-> "", err |-> r.err]
    ELSE IF r.readErr # nil THEN [script |-> "", err |-> r.readErr]
    ELSE [script |-> r.body, err |-> nil]

\* return downloadURL(path)
downloadURL ==
    /\ pc = "downloadURL"
    /\ LET p == FallbackPath(path, match)
       IN  /\ httpGets' = Append(httpGets, p)
           /\ \E r \in Responses(p) :
                /\ res' = r
                /\ httpResult' = URLResult(r)
                /\ dlRet' = URLResult(r)
    /\ pc' = "downloaded"
    /\ UNCHANGED <<mainVars, exitCode, idx, ran, stack, ret, log>>
    /\ UNCHANGED <<st, path, match, gsReads, gsResult>>
    /\ UNCHANGED <<fsVars, procVars>>

(***************************************************************************)
(* runBat, runPs1 and tempFile.                                            *)
(***************************************************************************)
\* the directory ioutil.TempDir creates for the record the loop is at: a
\* name no earlier call returned
TempDir == idx

\* the function f without the argument x
Without(f, x) == [y \in DOMAIN f \ {x} |-> f[y]]

\* runBat/runPs1 up to the call of runCmd: tempFile(name, ms.Script), the
\* return on its error, the defer statement and exec.Command.  tempFile
\* returns an error from ioutil.TempDir (no directory was made) or from
\* ioutil.WriteFile (the directory was made).
Runner(at, ext, argv) ==
    /\ pc = at
    /\ LET name == ms.Metadata \o ext
           dir  == TempDir
       IN  \/ /\ ret' = Errorf("mkdir: access is denied")
              /\ pc' = "return"
              /\ UNCHANGED <<fsVars, c>>
           \/ /\ dirs' = dirs \cup {dir}
              /\ ret' = Errorf("write " \o name \o ": disk full")
              /\ pc' = "return"
              /\ UNCHANGED <<files, tmpFile, c>>
           \/ /\ dirs' = dirs \cup {dir}
              /\ files' = (dir :> [name |-> name, content |-> ms.Script]) @@ files
              /\ tmpFile' = [dir |-> dir, name |-> name]
              /\ c' = Append(argv, tmpFile')
              /\ pc' = "runCmd"
              /\ UNCHANGED ret
    /\ UNCHANGED <<mainVars, exitCode, idx, ran, stack, log>>
    /\ UNCHANGED <<dlVars, lastPid, children, pipe>>

\* runBat naming the file <label>.cmd
runBat_CmdExt == Runner("runBat", ".cmd", << >>)

runBat == Runner("runBat", ".bat", << >>)

runPs1 ==
    Runner("runPs1", ".ps1",
           <<"powershell.exe", "-NoProfile", "-NoLogo",
             "-ExecutionPolicy", "Unrestricted", "-File">>)

\* the deferred os.RemoveAll(filepath.Dir(tmpFile)) of runBat/runPs1
deferRemoveAll ==
    /\ pc = "deferRemoveAll"
    /\ dirs' = dirs \ {tmpFile.dir}
    /\ files' = Without(files, tmpFile.dir)
    /\ pc' = "return"
    /\ UNCHANGED <<mainVars, exitCode, idx, ran, stack, ret, log>>
    /\ UNCHANGED <<dlVars, tmpFile, procVars>>

(***************************************************************************)
(* runCmd and the child process.                                           *)
(***************************************************************************)
\* runCmd: os.Pipe
runCmd_Pipe ==
    /\ pc = "runCmd"
    /\ \/ /\ ret' = Errorf("pipe: too many open files")
          /\ pc' = "deferRemoveAll"
          /\ UNCHANGED pipe
       \/ /\ pipe' = << >>
          /\ pc' = "Start"
          /\ UNCHANGED ret
    /\ UNCHANGED <<mainVars, exitCode, idx, ran, stack, log>>
    /\ UNCHANGED <<dlVars, fsVars, c, lastPid, children>>

\* runCmd: c.Start and pw.Close.  A started process will write the lines
\* out and then exit with status.
runCmd_Start ==
    /\ pc = "Start"
    /\ \/ /\ ret' = Errorf("exec: file not found")
          /\ pc' = "deferRemoveAll"
          /\ UNCHANGED <<lastPid, children>>
       \/ /\ \E out \in Outputs, status \in ExitStatuses :
                children' = (lastPid + 1 :>
                    [argv |-> c, out |-> out, status |-> status, state |-> "running"])
                    @@ children
          /\ lastPid' = lastPid + 1
          /\ pc' = "Scan"
          /\ UNCHANGED ret
    /\ UNCHANGED <<mainVars, exitCode, idx, ran, stack, log>>
    /\ UNCHANGED <<dlVars, fsVars, c, pipe>>

\* a child process writes its next line; it blocks while the pipe is full
child_write ==
    /\ \E p \in DOMAIN children :
        /\ children[p].state = "running"
        /\ children[p].out # << >>
        /\ Len(pipe) < PipeCap
        /\ pipe' = Append(pipe, Head(children[p].out))
        /\ children' = [children EXCEPT ![p].out = Tail(@)]
    /\ UNCHANGED <<mainVars, pc, exitCode, idx, ran, stack, ret, log>>
    /\ UNCHANGED <<dlVars, fsVars, c, lastPid>>

\* a child process that has written all its output exits, which closes its
\* end of the pipe
child_exit ==
    /\ \E p \in DOMAIN children :
        /\ children[p].state = "running"
        /\ children[p].out = << >>
        /\ children' = [children EXCEPT ![p].state = "exited"]
    /\ UNCHANGED <<mainVars, pc, exitCode, idx, ran, stack, ret, log>>
    /\ UNCHANGED <<dlVars, fsVars, c, lastPid, pipe>>

\* runCmd: in.Scan returns a line, which is logged, or stops at a line
\* longer than the scanner's buffer
runCmd_Scan ==
    /\ pc = "Scan"
    /\ pipe # << >>
    /\ pipe' = Tail(pipe)
    /\ IF Head(pipe) = "<too long>"
       THEN /\ pc' = "Wait"
            /\ UNCHANGED log
       ELSE /\ log' = Append(log, Logged("output", ms.Metadata \o ": " \o Head(pipe)))
            /\ UNCHANGED pc
    /\ UNCHANGED <<mainVars, exitCode, idx, ran, stack, ret>>
    /\ UNCHANGED <<dlVars, fsVars, c, lastPid, children>>

\* runCmd: in.Scan returns false at the end of the file, when the pipe is
\* empty and no process holds its write end
runCmd_ScanEOF ==
    /\ pc = "Scan"
    /\ pipe = << >>
    /\ \A p \in DOMAIN children : children[p].state # "running"
    /\ pc' = "Wait"
    /\ UNCHANGED <<mainVars, exitCode, idx, ran, stack, ret, log>>
    /\ UNCHANGED <<dlVars, fsVars, procVars>>

\* c.Wait returns when the process has exited
WaitReturns(child) == child.state = "exited"

\* runCmd_Wait returning nil without the call of c.Wait
runCmd_WaitSkipped ==
    /\ pc = "Wait"
    /\ ret' = nil
    /\ pc' = "deferRemoveAll"
    /\ UNCHANGED <<mainVars, exitCode, idx, ran, stack, log>>
    /\ UNCHANGED <<dlVars, fsVars, procVars>>

\* runCmd: return c.Wait()
runCmd_Wait ==
    /\ pc = "Wait"
    /\ WaitReturns(children[lastPid])
    /\ ret' = IF children[lastPid].status = 0 THEN nil
              ELSE ExitError(children[lastPid].status)
    /\ children' = Without(children, lastPid)
    /\ pc' = "deferRemoveAll"
    /\ UNCHANGED <<mainVars, exitCode, idx, ran, stack, log>>
    /\ UNCHANGED <<dlVars, fsVars, c, lastPid, pipe>>

(***************************************************************************)
(* The program.                                                            *)
(***************************************************************************)
Next ==
    \/ main_validateArgs
    \/ getScripts_error
    \/ getScripts
    \/ main_noScripts
    \/ main_runScripts
    \/ runScripts_next
    \/ runScripts_return
    \/ runScripts_classify
    \/ run
    \/ run_url
    \/ run_downloaded
    \/ downloadScript
    \/ downloadGSURL
    \/ downloadURL
    \/ runBat
    \/ runPs1
    \/ deferRemoveAll
    \/ runCmd_Pipe
    \/ runCmd_Start
    \/ child_write
    \/ child_exit
    \/ runCmd_Scan
    \/ runCmd_ScanEOF
    \/ runCmd_Wait

Spec == Init /\ [][Next]_vars

(***************************************************************************)
(* Properties.                                                             *)
(***************************************************************************)
\* getMetadata has returned an attribute map
Fetched == pc \notin {"main", "getScripts"} /\ err = ""

KindOrder == <<ps1, cmd, bat, url>>

ConcreteKinds == {ps1, cmd, bat}

\* the key of kind t is in the map att with a non-empty value
Populated(mdsm, att, t) == mdsm[t] \in DOMAIN att /\ att[mdsm[t]] # ""

\* the positions at which runBat, runPs1 or runCmd is active
RunnerPcs == {"runPs1", "runBat", "runCmd", "Start", "Scan", "Wait", "deferRemoveAll"}

NonEmptyPair(m) == m[1] # "" /\ m[2] # ""

LastLogged == log[Len(log)]

\* C1: a run with a valid phase argument whose metadata fetch succeeds ends
\* with exit status 0 after the 'finished' (or 'no scripts') line; the exit
\* status is non-zero only when validateArgs or the metadata fetch failed.
C1_OnlyArgumentOrFetchErrorsFail ==
    pc = "exited" =>
        IF err = ""
        THEN /\ exitCode = 0
             /\ LastLogged.msg \in {"Finished running " \o args[2] \o " scripts.",
                                    "No " \o args[2] \o " scripts to run."}
        ELSE exitCode # 0

\* C2: runScripts calls run on every record of the run list exactly once, in
\* list order, whatever the earlier outcomes, and the exit status of the
\* program stays 0.
C2_EveryRecordRunOnceInOrder ==
    /\ ran = [i \in 1..Len(ran) |-> i]
    /\ Len(ran) <= Len(mdss)
    /\ (pc = "exited" /\ idx >= 1) => (Len(ran) = Len(mdss) /\ exitCode = 0)

\* C3: the run list holds exactly one record (kind, value unchanged, key
\* name) for each kind whose key has a non-empty value, in the order ps1,
\* cmd, bat, url, whatever the order in which the maps yield their keys.
C3_RunListIsPopulatedKindsInOrder ==
    Fetched =>
        LET kinds == SelectSeq(KindOrder, LAMBDA t : Populated(metadata, md, t))
        IN  mdss = [i \in 1..Len(kinds) |->
                      [Type |-> kinds[i],
                       Script |-> md[metadata[kinds[i]]],
                       Metadata |-> metadata[kinds[i]]]]

C3_Witness ==
    /\ Fetched
    /\ Len(mdss) = 2
    /\ mdss[1].Type = ps1 /\ mdss[2].Type = cmd
    /\ metadata[bat] \in DOMAIN md /\ md[metadata[bat]] = ""
    /\ metadata[url] \notin DOMAIN md

\* C4: runPs1 and runBat only act on a record of kind ps1, cmd or bat; a url
\* record derives one record of concrete kind with the fetched body and the
\* same label, and the calls of run nest one level deep, also when the
\* fetched body is itself a reference.
C4_RunnerSeesConcreteKindOneLevelDeep ==
    /\ Len(stack) <= 2
    /\ pc \in RunnerPcs => ms.Type \in ConcreteKinds
    /\ (Len(stack) >= 1 /\ stack[1].Type # url) => Len(stack) = 1
    /\ Len(stack) = 2 =>
        /\ stack[1] = mdss[idx]
        /\ stack[1].Type = url
        /\ dlRet.err = nil
        /\ stack[2].Type \in ConcreteKinds
        /\ stack[2].Type = st
        /\ stack[2].Script = dlRet.script
        /\ stack[2].Metadata = stack[1].Metadata

C4_Witness ==
    /\ Len(stack) = 2
    /\ pc = "runPs1"
    /\ ms.Script = "gs://b/o.ps1"

\* the kind a reference names by ending in .ps1, .cmd or .bat, or -1
DotExtKind(t) ==
    IF HasSuffix(t, ".ps1") THEN ps1
    ELSE IF HasSuffix(t, ".cmd") THEN cmd
    ELSE IF HasSuffix(t, ".bat") THEN bat
    ELSE -1

\* C5: a non-empty url value that, trimmed, ends in .ps1, .cmd or .bat
\* resolves to that kind; for every other value run returns an error value
\* and attempts neither a fetch nor a process launch.
C5_ResolveByExtensionOrError ==
    (Len(stack) >= 1 /\ stack[1].Type = url /\ ~(pc = "run" /\ Len(stack) = 1)) =>
        LET trimmed == TrimSpace(stack[1].Script)
        IN  IF DotExtKind(trimmed) # -1
            THEN st = DotExtKind(trimmed) /\ path = trimmed
            ELSE /\ pc = "return"
                 /\ ret.kind = "error"
                 /\ Len(stack) = 1
                 /\ gsReads = << >> /\ httpGets = << >>
                 /\ DOMAIN children = {} /\ idx \notin dirs

\* C6: downloadScript returns the body of the authenticated read when the
\* reference matches and the read succeeds; otherwise its result, body and
\* error, is that of the GET of the reference itself.
C6_DownloadScriptResult ==
    pc = "downloaded" =>
        IF NonEmptyPair(findMatch(path)) /\ gsReads # << >> /\ gsResult.err = nil
        THEN /\ dlRet = gsResult
             /\ gsReads = <<findMatch(path)>>
             /\ httpGets = << >>
        ELSE /\ httpGets = <<path>>
             /\ dlRet = httpResult
             /\ path = TrimSpace(mdss[idx].Script)

C6_Witness ==
    /\ pc = "downloaded"
    /\ NonEmptyPair(match)
    /\ gsResult.err # nil
    /\ httpGets = <<path>>
    /\ dlRet.err = nil

\* C7: one call of downloadScript makes at most one authenticated read and
\* at most one GET; the read only with a non-empty bucket and object, the
\* GET only after no match or a failed authenticated download.
C7_OneAttemptPerPath ==
    /\ Len(gsReads) <= 1
    /\ Len(httpGets) <= 1
    /\ pc = "downloadGSURL" => NonEmptyPair(match)
    /\ gsReads # << >> => NonEmptyPair(match) /\ gsReads[1] = match
    /\ httpGets # << >> => ~NonEmptyPair(match) \/ gsResult.err # nil

C7_Witness ==
    /\ pc = "downloaded"
    /\ Len(gsReads) = 1
    /\ Len(httpGets) = 1

\* C8: when runPs1 or runBat has returned, the temporary directory it
\* created has been removed, on every exit path after its creation.
C8_TempDirRemovedOnReturn ==
    pc \in {"return", "runScripts", "exited"} => dirs = {}

\* C9: when every key of the phase is absent or empty, the run list is
\* empty and the program exits with status 0 without a temporary file, a
\* download or a process.
AllAbsentOrEmpty == \A t \in DOMAIN metadata : ~Populated(metadata, md, t)

C9_NothingToRun ==
    (Fetched /\ AllAbsentOrEmpty) =>
        /\ mdss = << >>
        /\ pc \in {"checkLen", "exited"}
        /\ pc = "exited" => exitCode = 0
        /\ ran = << >>
        /\ dirs = {} /\ DOMAIN files = {}
        /\ gsReads = << >> /\ httpGets = << >>
        /\ lastPid = 0 /\ DOMAIN children = {}

C9_Witness ==
    /\ Fetched /\ AllAbsentOrEmpty
    /\ pc = "exited" /\ exitCode = 0
    /\ \E t \in DOMAIN metadata : metadata[t] \in DOMAIN md
    /\ \E t \in DOMAIN metadata : metadata[t] \notin DOMAIN md

\* C10: at most one child process exists at a time, and the loop takes the
\* next record only after the process of the current one was waited on.
C10_OneChildAtATime ==
    /\ Cardinality(DOMAIN children) <= 1
    /\ \A p \in DOMAIN children : p = lastPid
    /\ pc \notin {"Scan", "Wait"} => DOMAIN children = {}

C10_Witness ==
    /\ idx >= 2
    /\ lastPid >= 2
    /\ pc = "Scan"
    /\ lastPid \in DOMAIN children
    /\ children[lastPid].state = "running"

\* the argument vector holds one argument, which names a phase
ValidPhase == Len(args) = 2 /\ args[2] \in {"specialize", "startup", "shutdown"}

\* C11: the program accepts exactly one argument that is one of specialize,
\* startup, shutdown; for every other argument vector it prints the usage
\* message and exits with status 1, and no later step (metadata request,
\* script run) is ever taken.
C11_UsageAndExitOneOnBadArguments ==
    pc # "main" =>
        IF ValidPhase
        THEN /\ err # ArgumentError
             /\ DOMAIN metadata = {ps1, cmd, bat, url}
             /\ log # <<Logged("stdout", ArgumentError)>>
        ELSE /\ pc = "exited"
             /\ exitCode = 1
             /\ log = <<Logged("stdout", ArgumentError)>>
             /\ DOMAIN md = {} /\ mdss = << >> /\ ran = << >>
             /\ gsReads = << >> /\ httpGets = << >>
             /\ dirs = {} /\ lastPid = 0

C11_Witness ==
    /\ pc = "exited"
    /\ exitCode = 1
    /\ Len(args) = 3
    /\ args[2] = "startup"

\* the extension of a kind in the key names
KeyExt == <<"ps1", "cmd", "bat", "url">>

\* the key of kind t for a phase, as the convention spells it
KeyName(phase, t) ==
    IF phase = "specialize"
    THEN "sysprep-specialize-script-" \o KeyExt[t + 1]
    ELSE "windows-" \o phase \o "-script-" \o KeyExt[t + 1]

\* C12: for a valid phase the key set holds exactly one key per kind,
\* sysprep-specialize-script-<ext> or windows-<phase>-script-<ext>, the four
\* keys pairwise distinct, and no later step of the run changes it.
C12_KeySetOfPhase ==
    (pc # "main" /\ ValidPhase) =>
        /\ DOMAIN metadata = {ps1, cmd, bat, url}
        /\ \A t \in DOMAIN metadata : metadata[t] = KeyName(args[2], t)
        /\ \A t, u \in DOMAIN metadata : t # u => metadata[t] # metadata[u]

C12_Witness ==
    /\ pc = "exited"
    /\ exitCode = 0
    /\ Len(ran) >= 2
    /\ args[2] = "specialize"
    /\ metadata[url] = "sysprep-specialize-script-url"

(***************************************************************************)
(* findMatch on its own: the references of the four shapes, built from a   *)
(* bucket and an object, and strings of no shape.                          *)
(***************************************************************************)
BucketNames == {"b", "b-1", "my_bucket.x", "0a"}

ObjectNames == {"o", "o.ps1", "dir/o.cmd", "a b", "o/"}

\* the shapes the comments of the patterns list, with their schemes
Shapes ==
    {<<"gs", "gs">>} \cup
    ({"bucket.storage.googleapis.com", "storage.cloud.google.com",
      "storage.googleapis.com", "commondatastorage.googleapis.com"}
     \X {"http", "https"})

\* the reference of shape sh to the object o of the bucket b
Reference(sh, b, o) ==
    IF sh[1] = "gs" THEN "gs://" \o b \o "/" \o o
    ELSE IF sh[1] = "bucket.storage.googleapis.com"
         THEN sh[2] \o "://" \o b \o ".storage.googleapis.com/" \o o
    ELSE sh[2] \o "://" \o sh[1] \o "/" \o b \o "/" \o o

\* strings of none of the shapes
NotReferences ==
    {"", "gs://b/", "gs://b", "gs:///o", "gs://B/o", "GS://b/o", " gs://b/o",
     "gs://b/o\n", "/tmp/o.ps1", "o.ps1", "ftp://b/o", "s3://b/o",
     "http://x.io/s.cmd", "httpss://storage.googleapis.com/b/o",
     "https://storage.googleapis.com/b", "https://storage.googleapis.com/b/",
     "https://storage.cloud.google.com//o", "http://.storage.googleapis.com/o",
     "https://b.storage.googleapis.com/", "http://storage.googleapis.com:80/b/o"}

MatchInputs ==
    {Reference(sh, b, o) : sh \in Shapes, b \in BucketNames, o \in ObjectNames}
    \cup NotReferences

InitFindMatch ==
    /\ args = <<exe, "startup">>
    /\ pc = "findMatch"
    /\ path \in MatchInputs
    /\ exitCode = -1
    /\ err = ""
    /\ metadata = << >>
    /\ md = << >>
    /\ mdss = << >>
    /\ idx = 0
    /\ ran = << >>
    /\ stack = << >>
    /\ st = ps1
    /\ match = <<"", "">>
    /\ gsReads = << >>
    /\ gsResult = NoResult
    /\ httpGets = << >>
    /\ res = NoResponse
    /\ httpResult = NoResult
    /\ dlRet = NoResult
    /\ dirs = {}
    /\ files = << >>
    /\ tmpFile = [dir |-> 0, name |-> ""]
    /\ c = << >>
    /\ lastPid = 0
    /\ children = << >>
    /\ pipe = << >>
    /\ ret = nil
    /\ log = << >>

\* bucket, object := findMatch(path)
findMatch_call ==
    /\ pc = "findMatch"
    /\ match' = findMatch(path)
    /\ pc' = "matched"
    /\ UNCHANGED <<mainVars, exitCode, idx, ran, stack, ret, log>>
    /\ UNCHANGED <<st, path, gsReads, gsResult, httpGets, res, httpResult, dlRet>>
    /\ UNCHANGED <<fsVars, procVars>>

NextFindMatch == findMatch_call

SpecFindMatch == InitFindMatch /\ [][NextFindMatch]_vars

\* C13: for a reference of one of the four shapes findMatch returns its
\* exact bucket and object, both non-empty; for every other string,
\* gs://bucket/ without an object included, it returns two empty strings.
C13_FindMatchReturnsBucketAndObject ==
    pc = "matched" =>
        /\ \A sh \in Shapes, b \in BucketNames, o \in ObjectNames :
                path = Reference(sh, b, o) => match = <<b, o>>
        /\ path \in NotReferences => match = <<"", "">>
        /\ (match[1] = "") <=> (match[2] = "")

C13_Witness ==
    /\ pc = "matched"
    /\ path = "https://commondatastorage.googleapis.com/my_bucket.x/dir/o.cmd"
    /\ match = <<"my_bucket.x", "dir/o.cmd">>

\* the positions inside downloadScript and up to the use of its result
DownloadPcs == {"downloadScript", "downloadGSURL", "downloadURL", "downloaded"}

\* C14 as stated: every entry, the url entry included, is resolved and
\* fetched while the run list is built, so the list holds concrete records
\* only and no resolution or download follows the start of a process.
C14_ResolvedWhileBuildingList ==
    /\ Fetched => \A i \in 1..Len(mdss) : mdss[i].Type \in ConcreteKinds
    /\ (pc \in DownloadPcs \/ (pc = "run" /\ ms.Type = url)) => lastPid = 0

\* C14 amended: the run list holds the url entry unresolved (kind url, the
\* metadata value as body); it is classified and downloaded only when the
\* loop of runScripts has reached it, as the last record, after every
\* earlier record was run and its process waited on; runPs1 and runBat
\* still only receive records of concrete kind.
C14_ResolvedWhenLoopReachesRecord ==
    /\ (Fetched /\ Populated(metadata, md, url)) =>
            mdss[Len(mdss)] = [Type |-> url,
                               Script |-> md[metadata[url]],
                               Metadata |-> metadata[url]]
    /\ pc \in DownloadPcs =>
            /\ idx = Len(mdss)
            /\ Len(ran) = Len(mdss)
            /\ stack = <<mdss[idx]>>
            /\ mdss[idx].Type = url
            /\ DOMAIN children = {}
    /\ pc \in RunnerPcs => ms.Type \in ConcreteKinds

C14_Witness ==
    /\ pc = "downloadScript"
    /\ Len(ran) = 2
    /\ lastPid = 1

\* the label of the record the loop of runScripts took last
LastLabel == mdss[ran[Len(ran)]].Metadata

\* the lines of the log that report the completion of a record: an error
\* line, or the information line "<label> exit status <n>"
Completions ==
    SelectSeq(log, LAMBDA e :
        \/ e.level = "error"
        \/ e.level = "info" /\ HasPrefix(e.msg, LastLabel \o " exit status "))

\* C15: for every record run, runScripts logs exactly one completion
\* outcome: 'exit status 0' as information for exit 0, the exit status as
\* information for a non-zero exit of the process, an error for every
\* infrastructure failure, and never one in the place of the other.
C15_OneClassifiedOutcomePerRecord ==
    ran # << >> =>
        IF pc \in {"runScripts", "exited"}
        THEN /\ Len(Completions) = 1
             /\ ret.kind = "nil" =>
                    Completions[1] = Logged("info", LastLabel \o " exit status 0")
             /\ ret.kind = "ExitError" =>
                    /\ Completions[1] = Logged("info", LastLabel \o " " \o ret.msg)
                    /\ ret.msg # "exit status 0"
             /\ ret.kind = "error" => Completions[1] = Logged("error", ret.msg)
        ELSE Len(Completions) = 0

\* a child blocked for ever: it has a line to write, the pipe is full, and
\* runCmd has left its read loop, so no step empties the pipe
BlockedForever(p) ==
    /\ children[p].state = "running"
    /\ children[p].out # << >>
    /\ Len(pipe) >= PipeCap
    /\ pc # "Scan"

\* C16: for every output of the child, runCmd reads the pipe until its end
\* of file and only then waits for the process, so that no child is left
\* blocked for ever on a full pipe.
C16_DrainsPipeToEOFThenWaits ==
    /\ pc = "Wait" =>
            /\ pipe = << >>
            /\ children[lastPid].out = << >>
            /\ children[lastPid].state = "exited"
    /\ \A p \in DOMAIN children : ~BlockedForever(p)

\* the positions at which the script file of the current record exists
FilePcs == {"runCmd", "Start", "Scan", "Wait", "deferRemoveAll"}

PowerShellArgs ==
    <<"powershell.exe", "-NoProfile", "-NoLogo",
      "-ExecutionPolicy", "Unrestricted", "-File">>

\* the script file and the command of the current record, for a file
\* extension ext: the file <label>.<ext> holds the body, the label is the
\* key the record came from, a ps1 record is run through powershell.exe
\* -File <file>, every other record by the file itself
ScriptFileAndCommand(ext) ==
    /\ ms.Metadata = metadata[mdss[idx].Type]
    /\ tmpFile.name = ms.Metadata \o "." \o ext
    /\ tmpFile.dir \in dirs
    /\ files[tmpFile.dir] = [name |-> tmpFile.name, content |-> ms.Script]
    /\ c = IF ms.Type = ps1 THEN Append(PowerShellArgs, tmpFile) ELSE <<tmpFile>>
    /\ \A p \in DOMAIN children : children[p].argv = c

\* C17 as stated: the file is named <label>.<ext> with ext = ps1, cmd, bat
\* for the kinds ps1, cmd, bat.
C17_FileNamedByKind ==
    pc \in FilePcs => ScriptFileAndCommand(KeyExt[ms.Type + 1])

\* C17 amended: the file is named <label>.ps1 for a ps1 record and
\* <label>.bat for a cmd record as well as for a bat record.
C17_FileNamedPs1OrBat ==
    pc \in FilePcs => ScriptFileAndCommand(IF ms.Type = ps1 THEN "ps1" ELSE "bat")

C17_Witness ==
    /\ pc = "Scan"
    /\ ms.Type = cmd
    /\ tmpFile.name = "windows-startup-script-cmd.bat"
    /\ children[lastPid].argv = <<tmpFile>>

\* C18: downloadURL fails only on an error of http.Get or of reading the
\* body; it does not look at the status, so a response of status 403 or 404
\* (also after a failed authenticated read) is a successful fetch whose body
\* is the script that is written and run.
C18_AnyStatusIsASuccessfulFetch ==
    httpGets # << >> =>
        /\ httpResult.err # nil <=> (res.err # nil \/ res.readErr # nil)
        /\ httpResult.err # nil => httpResult.err \in {res.err, res.readErr}
        /\ httpResult.err = nil => httpResult.script = res.body
        /\ Len(stack) = 2 => stack[2].Script = res.body
        /\ (Len(stack) = 2 /\ pc \in FilePcs) => files[tmpFile.dir].content = res.body

C18_Witness ==
    /\ pc = "Scan"
    /\ Len(stack) = 2
    /\ gsReads # << >> /\ gsResult.err # nil
    /\ res.status = 403
    /\ files[tmpFile.dir].content \in ErrorBodies
    /\ children[lastPid].state = "running"

====
